---- MODULE Spec2Model ----
(***************************************************************************)
(* File Organizer: the organize / undo engine of main.py.                  *)
(*                                                                         *)
(* The directory tree is a function from paths (sequences of entry names)  *)
(* to "dir" or to the content of a plain file.  File names are strings;    *)
(* Spell gives the characters of a name so that os.path.splitext and       *)
(* str.lower are computed as Python computes them.                         *)
(***************************************************************************)
EXTENDS Integers, Sequences, FiniteSets, TLC

\* ------------------------------------------------------------------------
\* Bounds
\* ------------------------------------------------------------------------

\* number of distinct file contents
NumContents == 2

\* the organize button is not pressed once the undo stack holds this many entries
MaxUndo == 2

Contents == 1..NumContents

\* the selected folder
Root == "D1"

NoPath == "None"

\* ------------------------------------------------------------------------
\* Names and their characters
\* ------------------------------------------------------------------------

\* file names the user may have at the top level of the folder
Names == {"a.jpg", "b.PDF", "c.xyz"}

\* the contents a file of a name may have: one name comes with every content
ContentsOf(n) == IF n = "a.jpg" THEN Contents ELSE {1}

Spell ==
  [n \in {"a.jpg", "b.PDF", "c.xyz", "REPORT.pdf", "report", "Images",
          "Documents", "Videos", "Music", "Archives", "Programs", "Others"} |->
     CASE n = "a.jpg" -> <<"a", ".", "j", "p", "g">>
       [] n = "REPORT.pdf" -> <<"R", "E", "P", "O", "R", "T", ".", "p", "d", "f">>
       [] n = "report" -> <<"r", "e", "p", "o", "r", "t">>
       [] n = "b.PDF" -> <<"b", ".", "P", "D", "F">>
       [] n = "c.xyz" -> <<"c", ".", "x", "y", "z">>
       [] n = "Images" -> <<"I", "m", "a", "g", "e", "s">>
       [] n = "Documents" -> <<"D", "o", "c", "u", "m", "e", "n", "t", "s">>
       [] n = "Videos" -> <<"V", "i", "d", "e", "o", "s">>
       [] n = "Music" -> <<"M", "u", "s", "i", "c">>
       [] n = "Archives" -> <<"A", "r", "c", "h", "i", "v", "e", "s">>
       [] n = "Programs" -> <<"P", "r", "o", "g", "r", "a", "m", "s">>
       [] OTHER -> <<"O", "t", "h", "e", "r", "s">>]

UpperChars ==
  <<"A", "B", "C", "D", "E", "F", "G", "H", "I", "J", "K", "L", "M",
    "N", "O", "P", "Q", "R", "S", "T", "U", "V", "W", "X", "Y", "Z">>

LowerChars ==
  <<"a", "b", "c", "d", "e", "f", "g", "h", "i", "j", "k", "l", "m",
    "n", "o", "p", "q", "r", "s", "t", "u", "v", "w", "x", "y", "z">>

\* str.lower on one character
LowerChar(ch) ==
  IF \E i \in 1..26 : UpperChars[i] = ch
    THEN LowerChars[CHOOSE i \in 1..26 : UpperChars[i] = ch]
    ELSE ch

\* str.lower
lower(s) == [i \in 1..Len(s) |-> LowerChar(s[i])]

\* str.rfind(".") as a 1-based index, 0 when there is none
RFindDot(s) ==
  IF \E i \in 1..Len(s) : s[i] = "."
    THEN CHOOSE i \in 1..Len(s) : s[i] = "." /\ \A j \in (i+1)..Len(s) : s[j] # "."
    ELSE 0

\* the extension os.path.splitext returns for a name without separators:
\* from the last dot on, unless only dots precede it
splitext_ext(s) ==
  LET d == RFindDot(s)
  IN IF d > 0 /\ \E k \in 1..(d-1) : s[k] # "."
       THEN SubSeq(s, d, Len(s))
       ELSE <<>>

\* ------------------------------------------------------------------------
\* The rule table
\* ------------------------------------------------------------------------

Ext(a, b, c) == <<".", a, b, c>>

\* the rule table the module starts with
initial_extensions_map ==
  << [name |-> "Images",
      exts |-> <<Ext("j","p","g"), <<".","j","p","e","g">>, Ext("p","n","g"),
                 Ext("g","i","f"), Ext("b","m","p"), <<".","t","i","f","f">>,
                 Ext("s","v","g")>>],
     [name |-> "Documents",
      exts |-> <<Ext("p","d","f"), <<".","d","o","c","x">>, Ext("t","x","t"),
                 <<".","x","l","s","x">>, <<".","p","p","t","x">>,
                 Ext("d","o","c"), Ext("x","l","s"), Ext("p","p","t")>>],
     [name |-> "Videos",
      exts |-> <<Ext("m","p","4"), Ext("m","k","v"), Ext("m","o","v"),
                 Ext("a","v","i"), Ext("w","m","v"), Ext("f","l","v"),
                 Ext("m","p","v")>>],
     [name |-> "Music",
      exts |-> <<Ext("m","p","3"), Ext("w","a","v"), <<".","f","l","a","c">>,
                 Ext("a","a","c"), Ext("o","g","g"), Ext("w","m","a")>>],
     [name |-> "Archives",
      exts |-> <<Ext("z","i","p"), Ext("r","a","r"), <<".","7","z">>,
                 Ext("t","a","r"), <<".","g","z">>, Ext("b","z","2")>>],
     [name |-> "Programs",
      exts |-> <<Ext("e","x","e"), Ext("m","s","i"), Ext("a","p","k"),
                 Ext("d","m","g"), Ext("d","e","b")>>],
     [name |-> "Others", exts |-> <<>>] >>

\* the rule table, a global of the module that import_rules reassigns
VARIABLE extensions_map

\* ExtInList without the lower(): the extension is compared as spelled
ExtInList_exact(extension, ext_list) ==
  \E k \in 1..Len(ext_list) : ext_list[k] = extension

\* extension.lower() in ext_list
ExtInList(extension, ext_list) ==
  LET e == lower(extension)
  IN \E k \in 1..Len(ext_list) : ext_list[k] = e

RECURSIVE first_category(_, _)
\* the loop of get_file_breakdown over extensions_map.items(), from the k-th
\* rule on: the first category that lists the extension, "Others" when the
\* loop ends without one
first_category(extension, k) ==
  IF k > Len(extensions_map) THEN "Others"
  ELSE IF ExtInList(extension, extensions_map[k].exts) THEN extensions_map[k].name
  ELSE first_category(extension, k + 1)

\* the category get_file_breakdown counts a file name under
category_of(s) ==
  LET extension == splitext_ext(s)
  IN IF extension = <<>> THEN "Others" ELSE first_category(extension, 1)

\* ------------------------------------------------------------------------
\* The directory tree
\* ------------------------------------------------------------------------

DirEntry == [kind |-> "dir"]

FileEntry(c) == [kind |-> "file", content |-> c]

\* os.path.join
join2(a, b) == <<a, b>>

join3(a, b, c) == <<a, b, c>>

dirname(p) == SubSeq(p, 1, Len(p) - 1)

basename(p) == p[Len(p)]

\* os.path.exists
exists(f, p) == p \in DOMAIN f

\* os.path.isdir
isdir(f, p) == p \in DOMAIN f /\ f[p].kind = "dir"

\* os.path.isfile
isfile(f, p) == p \in DOMAIN f /\ f[p].kind = "file"

IsPrefix(a, b) == Len(a) <= Len(b) /\ SubSeq(b, 1, Len(a)) = a

\* the entries of directory p, as os.listdir names them
listdir(f, p) == {q[Len(q)] : q \in {r \in DOMAIN f : Len(r) = Len(p) + 1 /\ IsPrefix(p, r)}}

\* os.makedirs(p): creates p and every missing ancestor; raises when p exists
\* or an ancestor is not a directory
makedirs(f, p) ==
  LET ancestors == {SubSeq(p, 1, k) : k \in 1..(Len(p) - 1)}
      blocked == exists(f, p) \/ \E a \in ancestors : exists(f, a) /\ ~isdir(f, a)
      made == {a \in ancestors \cup {p} : ~exists(f, a)}
  IN IF blocked
       THEN [ok |-> FALSE, fs |-> f]
       ELSE [ok |-> TRUE,
             fs |-> [q \in DOMAIN f \cup made |-> IF q \in made THEN DirEntry ELSE f[q]]]

\* src and everything below it renamed to dst
RenameTree(f, src, dst) ==
  LET moved == {q \in DOMAIN f : IsPrefix(src, q)}
      Target(q) == dst \o SubSeq(q, Len(src) + 1, Len(q))
      kept == DOMAIN f \ moved
      Source(t) == CHOOSE q \in moved : Target(q) = t
  IN [t \in kept \cup {Target(q) : q \in moved} |->
        IF \E q \in moved : Target(q) = t THEN f[Source(t)] ELSE f[t]]

\* shutil_move that copies a plain file and leaves the source in place
shutil_move_copy(f, src, dst) ==
  LET real_dst == IF isdir(f, dst) THEN Append(dst, basename(src)) ELSE dst
      fail == [ok |-> FALSE, fs |-> f]
  IN IF ~isfile(f, src) THEN fail
     ELSE IF isdir(f, dst) /\ exists(f, real_dst) THEN fail
     ELSE IF isdir(f, dirname(real_dst))
       THEN [ok |-> TRUE,
             fs |-> [q \in DOMAIN f \cup {real_dst} |-> IF q = real_dst THEN f[src] ELSE f[q]]]
       ELSE fail

\* shutil.move(src, dst): a directory dst takes src inside it and refuses a
\* name that is taken; a plain file is renamed over an existing plain file
\* (os.rename, or copy2 + unlink where os.rename refuses); a directory is
\* renamed, or copied with copytree, which refuses an existing destination
shutil_move(f, src, dst) ==
  LET real_dst == IF isdir(f, dst) THEN Append(dst, basename(src)) ELSE dst
      fail == [ok |-> FALSE, fs |-> f]
  IN IF ~exists(f, src) THEN fail
     ELSE IF isdir(f, dst) /\ exists(f, real_dst) THEN fail
     ELSE IF isfile(f, src)
       THEN IF isdir(f, dirname(real_dst))
              THEN [ok |-> TRUE, fs |-> RenameTree(f, src, real_dst)]
              ELSE fail
     ELSE IF exists(f, real_dst) \/ IsPrefix(src, real_dst) THEN fail
     ELSE LET mk == makedirs(f, dirname(real_dst))
              g == IF exists(f, dirname(real_dst)) THEN f ELSE mk.fs
          IN IF isdir(g, dirname(real_dst))
               THEN [ok |-> TRUE, fs |-> RenameTree(g, src, real_dst)]
               ELSE fail

\* ------------------------------------------------------------------------
\* Outputs of a handler: dialogs shown and lines logged
\* ------------------------------------------------------------------------

Dialog(kind, title, msg, file, n) ==
  [kind |-> kind, title |-> title, msg |-> msg, file |-> file, n |-> n]

LogLine(level, msg, a, b) == [level |-> level, msg |-> msg, a |-> a, b |-> b]

\* ------------------------------------------------------------------------
\* Core logic
\* ------------------------------------------------------------------------

RECURSIVE create_folders_from(_, _, _)
\* create_folders, from the k-th key of the rule table on
create_folders_from(f, target_path, k) ==
  IF k > Len(extensions_map) THEN [ok |-> TRUE, fs |-> f]
  ELSE LET folder_path == join2(target_path, extensions_map[k].name)
       IN IF ~exists(f, folder_path)
            THEN LET mk == makedirs(f, folder_path)
                 IN IF mk.ok THEN create_folders_from(mk.fs, target_path, k + 1)
                    ELSE [ok |-> FALSE, fs |-> f]
            ELSE create_folders_from(f, target_path, k + 1)

create_folders(f, target_path) == create_folders_from(f, target_path, 1)

RECURSIVE MoveByRules_log_first(_, _, _, _, _)
\* MoveByRules that appends the pair to the operation log before it moves
MoveByRules_log_first(st, target_path, file, extension, k) ==
  IF k > Len(extensions_map) THEN st
  ELSE IF ExtInList(extension, extensions_map[k].exts)
    THEN LET folder_name == extensions_map[k].name
             old_path == join2(target_path, file)
             new_path == join3(target_path, folder_name, file)
             r == shutil_move(st.fs, old_path, new_path)
             logged == [st EXCEPT !.moved_files = Append(@, <<old_path, new_path>>)]
         IN IF r.ok
              THEN [logged EXCEPT !.fs = r.fs,
                                  !.moved_count = @ + 1,
                                  !.log = Append(@, LogLine("info", "Moved", <<file>>, <<folder_name>>))]
              ELSE MoveByRules_log_first(
                     [logged EXCEPT !.log = Append(@, LogLine("error", "Error moving", <<file>>, <<folder_name>>)),
                                    !.dialogs = Append(@, Dialog("showerror", "Error", "Failed to move", file, 0))],
                     target_path, file, extension, k + 1)
    ELSE MoveByRules_log_first(st, target_path, file, extension, k + 1)

RECURSIVE MoveByRules(_, _, _, _, _)
\* the loop over extensions_map.items() for one file, from the k-th rule on:
\* the first rule that lists the extension and whose move succeeds ends it;
\* a move that raises is logged and shown, and the loop goes on
MoveByRules(st, target_path, file, extension, k) ==
  IF k > Len(extensions_map) THEN st
  ELSE IF ExtInList(extension, extensions_map[k].exts)
    THEN LET folder_name == extensions_map[k].name
             old_path == join2(target_path, file)
             new_path == join3(target_path, folder_name, file)
             r == shutil_move(st.fs, old_path, new_path)
         IN IF r.ok
              THEN [st EXCEPT !.fs = r.fs,
                              !.moved_count = @ + 1,
                              !.moved_files = Append(@, <<old_path, new_path>>),
                              !.log = Append(@, LogLine("info", "Moved", <<file>>, <<folder_name>>))]
              ELSE MoveByRules(
                     [st EXCEPT !.log = Append(@, LogLine("error", "Error moving", <<file>>, <<folder_name>>)),
                                !.dialogs = Append(@, Dialog("showerror", "Error", "Failed to move", file, 0))],
                     target_path, file, extension, k + 1)
    ELSE MoveByRules(st, target_path, file, extension, k + 1)

\* the value handed to progress_callback after the i-th entry of the listing
\* (i counted from 1): i / total_files * 100, kept as a fraction
progress_value(i, total_files) == [num |-> i * 100, den |-> total_files]

RECURSIVE OrganizeLoop_abort(_, _, _, _)
\* OrganizeLoop that gives up the pass at the first move that raises
OrganizeLoop_abort(st, target_path, files, i) ==
  IF i > Len(files) \/ st.dialogs # <<>> THEN st
  ELSE LET file == files[i]
           extension == splitext_ext(Spell[file])
       IN IF ~isfile(st.fs, join2(target_path, file))
            THEN OrganizeLoop_abort(st, target_path, files, i + 1)
          ELSE IF extension = <<>>
            THEN OrganizeLoop_abort(st, target_path, files, i + 1)
          ELSE OrganizeLoop_abort(
                 [MoveByRules(st, target_path, file, extension, 1) EXCEPT
                    !.progress = Append(@, progress_value(i, st.total_files))],
                 target_path, files, i + 1)

RECURSIVE OrganizeLoop(_, _, _, _)
\* the loop over the listing, from its i-th entry on
OrganizeLoop(st, target_path, files, i) ==
  IF i > Len(files) THEN st
  ELSE LET file == files[i]
           extension == splitext_ext(Spell[file])
       IN IF ~isfile(st.fs, join2(target_path, file))
            THEN OrganizeLoop(st, target_path, files, i + 1)
          ELSE IF extension = <<>>
            THEN OrganizeLoop(st, target_path, files, i + 1)
          ELSE OrganizeLoop(
                 [MoveByRules(st, target_path, file, extension, 1) EXCEPT
                    !.progress = Append(@, progress_value(i, st.total_files))],
                 target_path, files, i + 1)

\* organize_files after create_folders, for the listing os.listdir returned
organize_files(f, target_path, files) ==
  OrganizeLoop([fs |-> f, moved_count |-> 0, moved_files |-> <<>>,
                log |-> <<>>, dialogs |-> <<>>, progress |-> <<>>,
                total_files |-> Cardinality({i \in 1..Len(files) : isfile(f, join2(target_path, files[i]))})],
               target_path, files, 1)

\* ------------------------------------------------------------------------
\* Listing order
\* ------------------------------------------------------------------------

Perms(S) == {p \in [1..Cardinality(S) -> S] : \A i, j \in 1..Cardinality(S) : p[i] = p[j] => i = j}

RECURSIVE SelectSeq2(_, _)
\* the members of seq that are in S, in the order of seq
SelectSeq2(seq, S) ==
  IF seq = <<>> THEN <<>>
  ELSE IF Head(seq) \in S THEN <<Head(seq)>> \o SelectSeq2(Tail(seq), S)
  ELSE SelectSeq2(Tail(seq), S)

\* the orders of the model for a listing of more than the user's files: one
\* order of the entries and its rotations, so that every entry comes first
\* in some order
Orders(S) ==
  LET q == CHOOSE r \in Perms(S) : TRUE
      n == Cardinality(S)
  IN IF S = {} THEN {<<>>}
     ELSE {[i \in 1..n |-> q[((i + k - 1) % n) + 1]] : k \in 0..(n - 1)}

CategorySeq == [i \in 1..Len(extensions_map) |-> extensions_map[i].name]

\* the orders os.listdir may return: the user's files in any order, with the
\* category entries after them or before them
Listings(f, target_path) ==
  LET entries == listdir(f, <<target_path>>)
      cats == SelectSeq2([i \in 1..Len(initial_extensions_map) |-> initial_extensions_map[i].name],
                         entries)
  IN {p \o cats : p \in Perms(entries \cap Names)} \cup
     {cats \o p : p \in Perms(entries \cap Names)}

\* ------------------------------------------------------------------------
\* State
\* ------------------------------------------------------------------------

VARIABLES
  fs,              \* the directory tree
  target_path,     \* FileOrganizerApp.target_path
  recent_folders,  \* FileOrganizerApp.recent_folders
  undo_stack,      \* FileOrganizerApp.undo_stack
  out,             \* what the last handler showed, logged and returned
  renames          \* how many times the Rename button has run its loop

vars == <<fs, target_path, recent_folders, undo_stack, out, renames, extensions_map>>

\* no stacked passes under way
NoTrail == [phase |-> 0, moved |-> {}, count |-> [c \in Contents |-> 0]]

NoOut(op) ==
  [op |-> op, dialogs |-> <<>>, log |-> <<>>, moved |-> 0,
   moved_files |-> <<>>, undone |-> 0, data |-> <<>>, before |-> <<>>,
   stack_before |-> undo_stack, prev_moved |-> -1, progress |-> <<>>,
   created |-> <<>>, tool |-> <<>>, trail |-> NoTrail]

\* The trail follows a pass that starts on an empty undo stack (phase 1),
\* files added to the top level after it, a second pass (phase 2) and two
\* undos (phases 3 and 4), each step directly after the one before: the
\* names and contents of the files the passes moved, and how many files
\* of each content the folder held before the first pass or received since.
\* Any other step ends the trail.
PassTrail(before, moved_files) ==
  LET movedNow == {<<basename(moved_files[i][1]), before[moved_files[i][1]].content>> :
                     i \in 1..Len(moved_files)}
  IN IF moved_files = <<>> THEN NoTrail
     ELSE IF undo_stack = <<>>
       THEN [phase |-> 1, moved |-> movedNow,
             count |-> [c \in Contents |->
                          Cardinality({p \in DOMAIN before :
                                         before[p].kind = "file" /\ before[p].content = c})]]
     ELSE IF out.trail.phase = 1
       THEN [out.trail EXCEPT !.phase = 2, !.moved = @ \cup movedNow]
     ELSE NoTrail

AddTrail(c) ==
  IF out.trail.phase = 1 THEN [out.trail EXCEPT !.count[c] = @ + 1] ELSE NoTrail

UndoTrail ==
  IF out.trail.phase \in {2, 3} THEN [out.trail EXCEPT !.phase = @ + 1] ELSE NoTrail

\* the dialog that ends an organize pass
Organized(o) ==
  /\ o.op = "run_organizer"
  /\ \E i \in 1..Len(o.dialogs) : o.dialogs[i].msg = "Organized"

\* ------------------------------------------------------------------------
\* The folder the user starts with
\* ------------------------------------------------------------------------

FileEntries == {FileEntry(c) : c \in Contents}

\* paths that may exist before the application touches the folder, parents
\* first: the user's files, a category name (as a folder or as a plain
\* file), and an entry named like one of the user's files inside the folder
\* that file would be moved to (as a plain file or as a directory)
InitPaths ==
  << <<Root, "a.jpg">>, <<Root, "b.PDF">>, <<Root, "c.xyz">>,
     <<Root, "Images">>,
     <<Root, "Images", "a.jpg">>, <<Root, "Images", "a.jpg", "a.jpg">> >>

InitOptions(p) ==
  IF Len(p) = 2 /\ p[2] \in Names THEN {FileEntry(c) : c \in ContentsOf(p[2])}
  ELSE IF Len(p) = 2 THEN {DirEntry, FileEntry(1)}
  ELSE IF p = <<Root, "Images", "a.jpg">> THEN {DirEntry} \cup FileEntries
  ELSE FileEntries

WithEntry(f, p, e) == [q \in DOMAIN f \cup {p} |-> IF q = p THEN e ELSE f[q]]

RECURSIVE TreesFrom(_, _)
\* the trees that extend a tree of trees by entries at the k-th path on
TreesFrom(trees, k) ==
  IF k > Len(InitPaths) THEN trees
  ELSE LET p == InitPaths[k]
       IN TreesFrom(trees \cup {WithEntry(t[1], p, t[2]) :
                                  t \in {u \in trees \X InitOptions(p) : isdir(u[1], dirname(p))}},
                    k + 1)

InitTrees == TreesFrom({[q \in {<<Root>>} |-> DirEntry]}, 1)

Init ==
  /\ fs \in InitTrees
  /\ target_path = NoPath
  /\ recent_folders = <<>>
  /\ undo_stack = <<>>
  /\ out = NoOut("init")
  /\ renames = 0
  /\ extensions_map = initial_extensions_map

\* ------------------------------------------------------------------------
\* Handlers
\* ------------------------------------------------------------------------

\* select_folder whose list is never trimmed
select_folder_from_no_evict(folders) ==
  \E folder \in folders :
    /\ IF folder # NoPath
         THEN /\ target_path' = folder
              /\ recent_folders' =
                   IF \E i \in 1..Len(recent_folders) : recent_folders[i] = folder
                     THEN recent_folders
                     ELSE Append(recent_folders, folder)
         ELSE UNCHANGED <<target_path, recent_folders>>
    /\ out' = [NoOut("other") EXCEPT
                 !.tool = [folder |-> folder, recent_before |-> recent_folders]]
    /\ UNCHANGED <<fs, undo_stack, renames, extensions_map>>

\* the folder dialog returns one of folders, where NoPath stands for a
\* cancelled dialog
select_folder_from(folders) ==
  \E folder \in folders :
    /\ IF folder # NoPath
         THEN /\ target_path' = folder
              /\ recent_folders' =
                   IF \E i \in 1..Len(recent_folders) : recent_folders[i] = folder
                     THEN recent_folders
                     ELSE IF Len(recent_folders) + 1 > 5
                            THEN Tail(Append(recent_folders, folder))
                            ELSE Append(recent_folders, folder)
         ELSE UNCHANGED <<target_path, recent_folders>>
    /\ out' = [NoOut("other") EXCEPT
                 !.tool = [folder |-> folder, recent_before |-> recent_folders]]
    /\ UNCHANGED <<fs, undo_stack, renames, extensions_map>>

\* the folder dialog returns a folder, or nothing when cancelled
select_folder == select_folder_from({Root, NoPath})

\* a button of the recent-folders list, which shows the last three
load_folder ==
  \E i \in 1..Len(recent_folders) :
    /\ i > Len(recent_folders) - 3
    /\ target_path' = recent_folders[i]
    /\ out' = NoOut("other")
    /\ UNCHANGED <<fs, recent_folders, undo_stack, renames, extensions_map>>

\* clear_path that also forgets the recorded operations
clear_path_forgets ==
  /\ target_path' = NoPath
  /\ undo_stack' = <<>>
  /\ out' = NoOut("other")
  /\ UNCHANGED <<fs, recent_folders, renames, extensions_map>>

clear_path ==
  /\ target_path' = NoPath
  /\ out' = NoOut("other")
  /\ UNCHANGED <<fs, recent_folders, undo_stack, renames, extensions_map>>

\* record_operation that records a pass whether or not it moved a file
record_operation_always(stack, moved, moved_files) ==
  Append(stack, <<"organize", moved_files>>)

\* the undo stack after a pass that moved `moved` files
record_operation(stack, moved, moved_files) ==
  IF moved > 0 THEN Append(stack, <<"organize", moved_files>>) ELSE stack

\* the Organize button with no folder selected
run_organizer_no_folder ==
  /\ target_path = NoPath
  /\ out' = [NoOut("run_organizer") EXCEPT
               !.dialogs = <<Dialog("showwarning", "Warning", "Please select a folder first!", "", 0)>>]
  /\ UNCHANGED <<fs, target_path, recent_folders, undo_stack, renames, extensions_map>>

\* the Organize button with a folder selected
run_organizer_pass ==
  /\ target_path # NoPath
  /\ Len(undo_stack) < MaxUndo
  /\ \E cf \in {create_folders(fs, target_path)} :
        IF ~cf.ok
          THEN /\ fs' = cf.fs
               /\ out' = [NoOut("run_organizer") EXCEPT !.log = <<LogLine("error", "exception", <<>>, <<>>)>>,
                                                        !.before = fs]
               /\ UNCHANGED undo_stack
          ELSE \E files \in Listings(cf.fs, target_path) :
                 \E st \in {organize_files(cf.fs, target_path, files)} :
                    /\ fs' = st.fs
                    /\ undo_stack' = record_operation(undo_stack, st.moved_count, st.moved_files)
                    /\ out' = [NoOut("run_organizer") EXCEPT
                                 !.dialogs = Append(st.dialogs,
                                                    Dialog("showinfo", "Success", "Organized", "", st.moved_count)),
                                 !.log = st.log,
                                 !.moved = st.moved_count,
                                 !.moved_files = st.moved_files,
                                 !.before = fs,
                                 !.prev_moved = IF Organized(out) THEN out.moved ELSE -1,
                                 !.progress = st.progress,
                                 !.created = cf.fs,
                                 !.trail = PassTrail(fs, st.moved_files)]
  /\ UNCHANGED <<target_path, recent_folders, renames, extensions_map>>

run_organizer == run_organizer_no_folder \/ run_organizer_pass

RECURSIVE UndoLoop(_, _, _)
\* the loop over reversed(data), from the i-th pair of data down to the first
UndoLoop(st, data, i) ==
  IF i < 1 THEN st
  ELSE LET old_path == data[i][1]
           new_path == data[i][2]
       IN IF exists(st.fs, new_path)
            THEN LET r == shutil_move(st.fs, new_path, old_path)
                 IN IF r.ok
                      THEN UndoLoop([st EXCEPT !.fs = r.fs,
                                               !.undone = @ + 1,
                                               !.log = Append(@, LogLine("info", "Undid move", new_path, old_path))],
                                    data, i - 1)
                      ELSE UndoLoop([st EXCEPT !.log = Append(@, LogLine("error", "Error undoing move", new_path, old_path)),
                                               !.dialogs = Append(@, Dialog("showerror", "Error", "Failed to undo some moves", "", 0))],
                                    data, i - 1)
            ELSE UndoLoop(st, data, i - 1)

\* list_pop that reads the last entry and leaves it on the list
list_pop_peek(stack) ==
  [entry |-> stack[Len(stack)], rest |-> stack]

\* list.pop(): the last entry, and the list without it
list_pop(stack) ==
  [entry |-> stack[Len(stack)], rest |-> SubSeq(stack, 1, Len(stack) - 1)]

\* undo_nothing without the emptiness test: list.pop() raises on the empty list
undo_nothing_unguarded ==
  /\ undo_stack = <<>>
  /\ out' = [NoOut("undo_last_operation") EXCEPT
               !.log = <<LogLine("error", "exception", <<>>, <<>>)>>,
               !.before = fs]
  /\ UNCHANGED <<fs, target_path, recent_folders, undo_stack, renames, extensions_map>>

\* the Undo Last button with nothing recorded
undo_nothing ==
  /\ undo_stack = <<>>
  /\ out' = [NoOut("undo_last_operation") EXCEPT
               !.dialogs = <<Dialog("showinfo", "Undo", "No operations to undo.", "", 0)>>,
               !.before = fs]
  /\ UNCHANGED <<fs, target_path, recent_folders, undo_stack, renames, extensions_map>>

\* the Undo Last button with an operation recorded
undo_pop ==
  /\ undo_stack # <<>>
  /\ LET operation == list_pop(undo_stack).entry[1]
         data == list_pop(undo_stack).entry[2]
     IN /\ undo_stack' = list_pop(undo_stack).rest
        /\ IF operation = "organize"
             THEN \E st \in {UndoLoop([fs |-> fs, undone |-> 0, log |-> <<>>, dialogs |-> <<>>],
                                       data, Len(data))} :
                     /\ fs' = st.fs
                     /\ out' = [NoOut("undo_last_operation") EXCEPT
                                  !.dialogs = Append(st.dialogs, Dialog("showinfo", "Undo", "Undid", "", st.undone)),
                                  !.log = st.log,
                                  !.undone = st.undone,
                                  !.data = data,
                                  !.trail = UndoTrail]
             ELSE /\ fs' = fs
                  /\ out' = [NoOut("undo_last_operation") EXCEPT
                               !.dialogs = <<Dialog("showinfo", "Undo", "not implemented", "", 0)>>,
                               !.data = data]
  /\ UNCHANGED <<target_path, recent_folders, renames, extensions_map>>

undo_last_operation == undo_nothing \/ undo_pop

\* ------------------------------------------------------------------------
\* The user, outside the application
\* ------------------------------------------------------------------------

\* a new file appears at the top level of the folder
UserAddsFile ==
  \E n \in Names :
   \E c \in ContentsOf(n) :
    /\ isdir(fs, <<Root>>)
    /\ ~exists(fs, <<Root, n>>)
    /\ fs' = [p \in DOMAIN fs \cup {<<Root, n>>} |->
                IF p = <<Root, n>> THEN FileEntry(c) ELSE fs[p]]
    /\ out' = [NoOut("other") EXCEPT !.trail = AddTrail(c)]
    /\ UNCHANGED <<target_path, recent_folders, undo_stack, renames, extensions_map>>

\* an entry of a category folder is deleted, with everything below it
UserDeletes ==
  \E p \in DOMAIN fs :
    /\ Len(p) = 3
    /\ fs' = [q \in {r \in DOMAIN fs : ~IsPrefix(p, r)} |-> fs[q]]
    /\ out' = NoOut("other")
    /\ UNCHANGED <<target_path, recent_folders, undo_stack, renames, extensions_map>>

\* the selected folder is deleted, with everything in it
UserDeletesFolder ==
  /\ exists(fs, <<Root>>)
  /\ fs' = [q \in {r \in DOMAIN fs : ~IsPrefix(<<Root>>, r)} |-> fs[q]]
  /\ out' = NoOut("other")
  /\ UNCHANGED <<target_path, recent_folders, undo_stack, renames, extensions_map>>

Next ==
  \/ select_folder
  \/ load_folder
  \/ clear_path
  \/ run_organizer_no_folder
  \/ run_organizer_pass
  \/ undo_nothing
  \/ undo_pop
  \/ UserAddsFile
  \/ UserDeletes
  \/ UserDeletesFolder

Spec == Init /\ [][Next]_vars

\* ------------------------------------------------------------------------
\* Properties of organize and undo
\* ------------------------------------------------------------------------

\* the plain files at the top level of the folder, with their contents
TopFiles(f) ==
  [n \in {m \in listdir(f, <<Root>>) : isfile(f, <<Root, m>>)} |-> f[<<Root, n>>].content]

\* where the classifier sends a file of the folder
Dest(n) == <<Root, category_of(Spell[n]), n>>

\* some category lists the extension of the name
ExtListed(n) ==
  \E k \in 1..Len(extensions_map) : ExtInList(splitext_ext(Spell[n]), extensions_map[k].exts)

\* the pass showed a failure for the file
ErrorShownFor(o, n) ==
  \E i \in 1..Len(o.dialogs) : o.dialogs[i].kind = "showerror" /\ o.dialogs[i].file = n

\* the operation log of the pass has a pair for the file
LoggedFor(o, n) ==
  \E i \in 1..Len(o.moved_files) : o.moved_files[i][1] = <<Root, n>>

\* path p holds the same entry, or none, in both trees
SameAt(f, g, p) == (exists(f, p) <=> exists(g, p)) /\ (exists(f, p) => f[p] = g[p])

\* the handler that made this step was Undo Last
UndoStep == out'.op = "undo_last_operation"

\* C1: one organize pass followed at once by undo leaves the top level with
\* the same plain files, with the same contents, as before the pass.
C1_UndoRoundTrip ==
  [][(Organized(out) /\ UndoStep) => TopFiles(fs') = TopFiles(out.before)]_vars

\* C2: a top-level file whose category folder already holds a file of its
\* name is skipped by organize: it stays at the top level, is not logged, a
\* failure is shown for it, and the existing file is unchanged.
C2_CollisionSkipped ==
  Organized(out) =>
    \A n \in Names :
      (/\ isfile(out.before, <<Root, n>>)
       /\ splitext_ext(Spell[n]) # <<>>
       /\ isfile(out.before, Dest(n)))
      => /\ isfile(fs, <<Root, n>>)
         /\ fs[<<Root, n>>] = out.before[<<Root, n>>]
         /\ ~LoggedFor(out, n)
         /\ ErrorShownFor(out, n)
         /\ exists(fs, Dest(n))
         /\ fs[Dest(n)] = out.before[Dest(n)]

\* C3: a top-level file whose extension no category lists is moved by
\* organize into the "Others" folder, under its own name.
C3_UnlistedGoesToOthers ==
  Organized(out) =>
    \A n \in Names :
      (/\ isfile(out.before, <<Root, n>>)
       /\ splitext_ext(Spell[n]) # <<>>
       /\ ~ExtListed(n))
      => /\ isfile(fs, <<Root, "Others", n>>)
         /\ fs[<<Root, "Others", n>>] = out.before[<<Root, n>>]
         /\ ~exists(fs, <<Root, n>>)

\* C4: an organize pass that follows an organize pass at once moves no file,
\* returns an empty operation log and pushes nothing onto the undo stack.
C4_IdempotentAtRest ==
  (Organized(out) /\ out.prev_moved >= 0) =>
    /\ out.moved = 0
    /\ out.moved_files = <<>>
    /\ fs = out.before
    /\ undo_stack = out.stack_before

\* a second pass ran right after a pass that moved files
C4_Witness == Organized(out) /\ out.prev_moved > 0

\* C6: an organize pass pushes exactly one entry, its operation log, when a
\* file left the top level and nothing otherwise; undo on a non-empty stack
\* shortens it by one; nothing else changes the stack.
C6_UndoStackSize ==
  /\ Organized(out) =>
       undo_stack = IF \E n \in Names : isfile(out.before, <<Root, n>>) /\ ~isfile(fs, <<Root, n>>)
                      THEN Append(out.stack_before, <<"organize", out.moved_files>>)
                      ELSE out.stack_before
  /\ (out.op = "undo_last_operation" /\ out.stack_before # <<>>) =>
       /\ Len(undo_stack) = Len(out.stack_before) - 1
       /\ \A i \in 1..Len(undo_stack) : undo_stack[i] = out.stack_before[i]
  /\ (out.op = "undo_last_operation" /\ out.stack_before = <<>>) => undo_stack = <<>>
  /\ ~Organized(out) /\ out.op # "undo_last_operation" => undo_stack = out.stack_before

\* undo removed the newer of two recorded passes
C6_Witness ==
  /\ out.op = "undo_last_operation"
  /\ Len(out.stack_before) = 2
  /\ Len(undo_stack) = 1

\* C7: undo takes the pairs of the popped operation in reverse order; every
\* pair whose destination exists is moved back to its source and counted, a
\* pair whose destination is gone is skipped; the count is the number of
\* pairs moved back and at most the number of pairs.
C7_UndoPairs ==
  [][(UndoStep /\ undo_stack # <<>>) =>
       LET data == undo_stack[Len(undo_stack)][2]
           there == {i \in 1..Len(data) : exists(fs, data[i][2])}
           Line(i) == CHOOSE k \in 1..Len(out'.log) : out'.log[k].a = data[i][2]
       IN /\ \A i \in there :
               /\ ~exists(fs', data[i][2])
               /\ exists(fs', data[i][1])
               /\ fs'[data[i][1]] = fs[data[i][2]]
          /\ \A i \in 1..Len(data) : i \notin there => SameAt(fs', fs, data[i][1])
          /\ \A i, j \in there : i < j => Line(j) < Line(i)
          /\ out'.undone = Cardinality(there)
          /\ out'.undone <= Len(data)]_vars

\* C8: an undo pops the most recent operation and acts on it; the operation
\* is off the stack afterwards however many of its pairs were moved back.
C8_UndoAtMostOnce ==
  (out.op = "undo_last_operation" /\ out.stack_before # <<>>) =>
    /\ out.data = out.stack_before[Len(out.stack_before)][2]
    /\ undo_stack = SubSeq(out.stack_before, 1, Len(out.stack_before) - 1)
    /\ out.undone <= Len(out.data)

\* an undo that moved back fewer pairs than the operation held
C8_Witness ==
  /\ out.op = "undo_last_operation"
  /\ out.stack_before # <<>>
  /\ out.undone < Len(out.data)

\* C9: undo on an empty stack says there is nothing to undo, reports no
\* error, leaves the tree as it was and the stack empty.
C9_UndoEmpty ==
  (out.op = "undo_last_operation" /\ out.stack_before = <<>>) =>
    /\ out.dialogs = <<Dialog("showinfo", "Undo", "No operations to undo.", "", 0)>>
    /\ out.log = <<>>
    /\ fs = out.before
    /\ undo_stack = <<>>

\* undo was pressed with nothing recorded
C9_Witness ==
  /\ out.op = "undo_last_operation"
  /\ out.stack_before = <<>>
  /\ undo_stack = <<>>

\* C10: a file whose move fails stays where it was; every other top-level
\* file with a listed extension is still moved or reported; the pass ends
\* with its count and its log.
C10_FailureNotFatal ==
  Organized(out) =>
    /\ \A n \in Names :
         ErrorShownFor(out, n) =>
           /\ isfile(fs, <<Root, n>>)
           /\ fs[<<Root, n>>] = out.before[<<Root, n>>]
           /\ ~LoggedFor(out, n)
    /\ \A n \in Names :
         (isfile(out.before, <<Root, n>>) /\ ExtListed(n)) =>
           \/ LoggedFor(out, n) /\ ~isfile(fs, <<Root, n>>)
           \/ ErrorShownFor(out, n)
    /\ out.moved = Len(out.moved_files)
    /\ out.dialogs[Len(out.dialogs)] = Dialog("showinfo", "Success", "Organized", "", out.moved)

\* a pass in which one file failed and a file listed after it was moved
C10_Witness ==
  /\ Organized(out)
  /\ \E i, j \in 1..Len(out.log) :
       /\ i < j
       /\ out.log[i].level = "error"
       /\ out.log[j].msg = "Moved"

\* the Organize button ran a pass on the selected folder
PassRan(o) ==
  /\ o.op = "run_organizer"
  /\ \A i \in 1..Len(o.dialogs) : o.dialogs[i].kind # "showwarning"

\* the plain file of this name left the top level during the pass
LeftTopLevel(n) ==
  isfile(out.before, <<Root, n>>) /\ ~SameAt(fs, out.before, <<Root, n>>)

\* C11: the operation log of a pass holds one pair (source, destination)
\* for every file the pass moved, in the order of the moves, and none for a
\* file that failed or was skipped; the count returned is the length of
\* the log.
C11_OperationLog ==
  Organized(out) =>
    LET moves == SelectSeq(out.log, LAMBDA l : l.msg = "Moved")
    IN /\ out.moved = Len(out.moved_files)
       /\ Len(moves) = Len(out.moved_files)
       /\ \A i \in 1..Len(moves) :
            out.moved_files[i] = <<join2(Root, moves[i].a[1]),
                                   join3(Root, moves[i].b[1], moves[i].a[1])>>
       /\ \A n \in Names :
            /\ Cardinality({i \in 1..Len(out.moved_files) : out.moved_files[i][1] = <<Root, n>>})
                 = IF LeftTopLevel(n) THEN 1 ELSE 0
            /\ \A i \in 1..Len(out.moved_files) :
                 out.moved_files[i][1] = <<Root, n>> => out.moved_files[i][2] = Dest(n)
            /\ ErrorShownFor(out, n) => ~LoggedFor(out, n)

\* a pass moved two files, the one listed second first in the folder's
\* listing, and skipped a third
C11_Witness ==
  /\ Organized(out)
  /\ Len(out.moved_files) = 2
  /\ out.moved_files[1][1] = <<Root, "b.PDF">>
  /\ isfile(fs, <<Root, "c.xyz">>)

\* C12: every value a pass hands to the progress callback is at least 0 and
\* at most 100.
C12_ProgressRange ==
  Organized(out) =>
    \A k \in 1..Len(out.progress) :
      /\ 0 <= out.progress[k].num
      /\ out.progress[k].num <= 100 * out.progress[k].den

\* C13: a pass on a folder that does not exist aborts with a single error:
\* nothing is created, nothing is moved, and no result is shown.
C13_MissingTargetFatal ==
  (PassRan(out) /\ ~exists(out.before, <<Root>>)) =>
    /\ fs = out.before
    /\ ~Organized(out)
    /\ Cardinality({i \in 1..Len(out.log) : out.log[i].level = "error"}) = 1
    /\ out.moved = 0

\* C14: after the folder-creation step of a pass every category name is a
\* folder directly under the selected folder, whatever the folder held
\* before, and a category folder that was already there has its contents
\* untouched.
C14_CategoryFolders ==
  PassRan(out) =>
    /\ \A k \in 1..Len(extensions_map) : isdir(out.created, <<Root, extensions_map[k].name>>)
    /\ \A k \in 1..Len(extensions_map) :
         isdir(out.before, <<Root, extensions_map[k].name>>) =>
           \A p \in DOMAIN out.before \cup DOMAIN out.created :
             IsPrefix(<<Root, extensions_map[k].name>>, p) => SameAt(out.created, out.before, p)

\* ------------------------------------------------------------------------
\* Classification of file names, on its own
\* ------------------------------------------------------------------------

\* longest file name classified
MaxNameLen == 5

ClassifyChars == {".", "j", "p", "g", "G", "z"}

InputNames == UNION {[1..n -> ClassifyChars] : n \in 1..MaxNameLen}

\* a file name waiting to be classified
Unclassified(name) == [op |-> "listed", name |-> name, category |-> ""]

Classified(name) == [op |-> "classify", name |-> name, category |-> category_of(name)]

InitClassify ==
  /\ fs = [q \in {<<Root>>} |-> DirEntry]
  /\ target_path = NoPath
  /\ recent_folders = <<>>
  /\ undo_stack = <<>>
  /\ \E name \in InputNames : out = Unclassified(name)
  /\ renames = 0
  /\ extensions_map = initial_extensions_map

\* the listed file name is classified
classify_name ==
  /\ out.op = "listed"
  /\ out' = Classified(out.name)
  /\ UNCHANGED <<fs, target_path, recent_folders, undo_stack, renames, extensions_map>>

NextClassify == classify_name

SpecClassify == InitClassify /\ [][NextClassify]_vars

\* a name has an extension when a dot follows a character that is not a dot
HasExtension(name) ==
  \E d \in 2..Len(name) : name[d] = "." /\ \E k \in 1..(d - 1) : name[k] # "."

\* the last dot of a name
LastDot(name) ==
  CHOOSE d \in 1..Len(name) : name[d] = "." /\ \A k \in (d + 1)..Len(name) : name[k] # "."

\* the name ends in the extension e, spelled in any case
EndsWithExt(name, e) ==
  /\ Len(name) - LastDot(name) + 1 = Len(e)
  /\ \A k \in 1..Len(e) :
       LET ch == name[LastDot(name) + k - 1]
       IN ch = e[k] \/ \E u \in 1..26 : UpperChars[u] = ch /\ LowerChars[u] = e[k]

\* the rules that list the extension of the name
MatchingRules(name) ==
  {r \in 1..Len(extensions_map) :
     \E k \in 1..Len(extensions_map[r].exts) : EndsWithExt(name, extensions_map[r].exts[k])}

\* C5: a name without extension classifies to "Others"; any other name
\* classifies to the first category of the table that lists its extension
\* in lower case, and to "Others" when no category does.
C5_Classification ==
  out.op = "classify" =>
    IF ~HasExtension(out.name) \/ MatchingRules(out.name) = {}
      THEN out.category = "Others"
      ELSE \E r \in MatchingRules(out.name) :
             /\ \A q \in MatchingRules(out.name) : r <= q
             /\ out.category = extensions_map[r].name

\* a name whose extension is spelled with a capital was classified by a rule
C5_Witness ==
  /\ out.op = "classify"
  /\ out.category = "Images"
  /\ \E k \in 1..Len(out.name) : out.name[k] = "G"

\* ------------------------------------------------------------------------
\* The tools: batch rename, delete duplicates, clean empty folders
\* ------------------------------------------------------------------------

\* the Rename button is not pressed more often than this in a session
MaxRenames == 1

\* the rename patterns the user may type, as characters; the empty pattern
\* is an empty entry
Patterns ==
  { <<"f", "#">>, <<"f", "#", "#">>, <<"f", "#", "#", "#">>, <<"f">> }

Digits == <<"0", "1", "2", "3", "4", "5", "6", "7", "8", "9">>

RECURSIVE str_int(_)
\* str(n) for n >= 0
str_int(n) ==
  IF n < 10 THEN <<Digits[n + 1]>>
  ELSE str_int(n \div 10) \o <<Digits[(n % 10) + 1]>>

\* f"{n:0wd}": str(n) padded with zeros on the left to at least w characters
format_d(n, w) ==
  LET d == str_int(n)
  IN IF Len(d) >= w THEN d ELSE [j \in 1..(w - Len(d)) |-> "0"] \o d

RECURSIVE str_replace(_, _, _)
\* str.replace: the occurrences of old, found from the left without overlap
str_replace(s, old, new) ==
  IF Len(s) < Len(old) THEN s
  ELSE IF SubSeq(s, 1, Len(old)) = old
    THEN new \o str_replace(SubSeq(s, Len(old) + 1, Len(s)), old, new)
  ELSE <<Head(s)>> \o str_replace(Tail(s), old, new)

\* new_name that replaces the single "#" first
new_name_single_first(pattern, i) ==
  str_replace(str_replace(str_replace(pattern, <<"#">>, str_int(i)),
                          <<"#", "#">>, format_d(i, 2)),
              <<"#", "#", "#">>, format_d(i, 3))

\* the new name of the file at index i of the listing, counted from 1
new_name(pattern, i) ==
  str_replace(str_replace(str_replace(pattern, <<"#", "#", "#">>, format_d(i, 3)),
                          <<"#", "#">>, format_d(i, 2)),
              <<"#">>, str_int(i))

RECURSIVE Join(_)
\* the string of a sequence of characters
Join(chars) == IF chars = <<>> THEN "" ELSE Head(chars) \o Join(Tail(chars))

\* the folder a session with the tools starts with, parents first: plain
\* files at the top level, two of them with the same extension and one
\* named as a rename names its first file, a folder that is empty or holds
\* a plain file or an empty folder, and a second folder, empty
ToolPaths ==
  << <<Root, "a.jpg">>, <<Root, "f1.jpg">>, <<Root, "b.PDF">>,
     <<Root, "Images">>, <<Root, "Images", "a.jpg">>, <<Root, "Music">> >>

ToolOptions(p) ==
  IF p = <<Root, "f1.jpg">> THEN {FileEntry(1)}
  ELSE IF p = <<Root, "Music">> THEN {DirEntry}
  ELSE InitOptions(p)

\* no listing of the top level is longer than this
MaxListed == Len(ToolPaths)

\* the spelling of every name a batch rename can produce
RenamedSpell ==
  LET exts == {splitext_ext(Spell[n]) : n \in DOMAIN Spell}
      spellings == {new_name(p, i) \o e : p \in Patterns, i \in 1..MaxListed, e \in exts}
  IN [n \in {Join(cs) : cs \in spellings} |-> CHOOSE cs \in spellings : Join(cs) = n]

\* the characters of a file name
Chars(n) == IF n \in DOMAIN Spell THEN Spell[n] ELSE RenamedSpell[n]

\* os.rename(src, dst) for a plain file src and a free dst in a directory
os_rename(f, src, dst) ==
  IF isfile(f, src) /\ ~exists(f, dst) /\ isdir(f, dirname(dst))
    THEN [ok |-> TRUE, fs |-> RenameTree(f, src, dst)]
    ELSE [ok |-> FALSE, fs |-> f]

RECURSIVE RenameLoop_overwrite(_, _, _, _, _)
\* RenameLoop without the test that the new path is free
RenameLoop_overwrite(st, target, files, pattern, i) ==
  IF i > Len(files) \/ ~st.ok THEN st
  ELSE LET file == files[i]
           ext == splitext_ext(Chars(file))
           new_path == join2(target, Join(new_name(pattern, i) \o ext))
           old_path == join2(target, file)
       IN RenameLoop_overwrite(
            [st EXCEPT !.fs = IF old_path = new_path THEN @ ELSE RenameTree(@, old_path, new_path),
                       !.renamed = @ + 1,
                       !.pairs = Append(@, <<file, basename(new_path)>>)],
            target, files, pattern, i + 1)

RECURSIVE RenameLoop(_, _, _, _, _)
\* the loop of batch_rename over the listed plain files, from the i-th on
RenameLoop(st, target, files, pattern, i) ==
  IF i > Len(files) \/ ~st.ok THEN st
  ELSE LET file == files[i]
           ext == splitext_ext(Chars(file))
           new_path == join2(target, Join(new_name(pattern, i) \o ext))
       IN IF ~exists(st.fs, new_path)
            THEN LET r == os_rename(st.fs, join2(target, file), new_path)
                 IN IF r.ok
                      THEN RenameLoop([st EXCEPT !.fs = r.fs,
                                                 !.renamed = @ + 1,
                                                 !.pairs = Append(@, <<file, basename(new_path)>>)],
                                      target, files, pattern, i + 1)
                      ELSE [st EXCEPT !.ok = FALSE]
            ELSE RenameLoop(st, target, files, pattern, i + 1)

\* what a tool leaves in out
ToolOut(op, before, dialogs, tool) ==
  [NoOut(op) EXCEPT !.before = before, !.dialogs = dialogs, !.tool = tool]

\* the plain files directly in directory d
PlainFiles(f, d) == {n \in listdir(f, d) : isfile(f, Append(d, n))}

\* the directories directly in directory d
SubDirs(f, d) == {n \in listdir(f, d) : isdir(f, Append(d, n))}

\* a tool button with no folder selected
tool_no_folder ==
  /\ target_path = NoPath
  /\ \E op \in {"batch_rename", "delete_duplicates", "clean_empty_folders"} :
       out' = ToolOut(op, fs, <<Dialog("showwarning", "Warning", "Select a folder first!", "", 0)>>, <<>>)
  /\ UNCHANGED <<fs, target_path, recent_folders, undo_stack, renames, extensions_map>>

\* the Rename button
batch_rename ==
  /\ target_path # NoPath
  /\ renames < MaxRenames
  /\ renames' = renames + 1
  /\ \E pattern \in Patterns \cup {<<>>} :
       IF pattern = <<>>
         THEN /\ fs' = fs
              /\ out' = ToolOut("batch_rename", fs,
                                <<Dialog("showwarning", "Warning", "Enter a rename pattern!", "", 0)>>, <<>>)
       ELSE IF ~isdir(fs, <<target_path>>)
         THEN /\ fs' = fs
              /\ out' = ToolOut("batch_rename", fs,
                                <<Dialog("showerror", "Error", "Failed to rename files", "", 0)>>, <<>>)
       ELSE \E files \in Orders(PlainFiles(fs, <<target_path>>)) :
              \E st \in {RenameLoop([ok |-> TRUE, fs |-> fs, renamed |-> 0, pairs |-> <<>>],
                                    target_path, files, pattern, 1)} :
                 /\ fs' = st.fs
                 /\ out' = ToolOut("batch_rename", fs,
                                   IF st.ok
                                     THEN <<Dialog("showinfo", "Success", "Renamed", "", st.renamed)>>
                                     ELSE <<Dialog("showerror", "Error", "Failed to rename files", "", 0)>>,
                                   [pattern |-> pattern, files |-> files,
                                    renamed |-> st.renamed, pairs |-> st.pairs])
  /\ UNCHANGED <<target_path, recent_folders, undo_stack, extensions_map>>

\* hashlib.md5(bytes).hexdigest(): equal for equal contents; two different
\* contents of the model never collide
hexdigest(content) == <<"md5", content>>

RECURSIVE Walks(_, _)
RECURSIVE SubWalks(_, _, _)
\* the orders in which os.walk(d) may yield the plain files below d: the files
\* of a directory in any order, then its subdirectories in any order (those
\* that hold no plain file at any depth yield nothing wherever they come)
Walks(f, d) ==
  {[i \in 1..Len(pf) |-> Append(d, pf[i])] \o rest :
     pf \in Perms(PlainFiles(f, d)),
     rest \in SubWalks(f, d, {n \in SubDirs(f, d) :
                                \E q \in DOMAIN f : f[q].kind = "file" /\ IsPrefix(Append(d, n), q)})}

SubWalks(f, d, dirs) ==
  IF dirs = {} THEN {<<>>}
  ELSE UNION {{w \o r : w \in Walks(f, Append(d, n)), r \in SubWalks(f, d, dirs \ {n})} : n \in dirs}

RECURSIVE ScanLoop_keep_last(_, _, _, _)
\* ScanLoop that keeps the path seen last for a digest and reports the one
\* seen before it
ScanLoop_keep_last(st, walk, unreadable, i) ==
  IF i > Len(walk) THEN st
  ELSE LET path == walk[i]
       IN IF path \in unreadable THEN [st EXCEPT !.ok = FALSE]
          ELSE LET hash_val == hexdigest(st.fs[path].content)
               IN IF hash_val \in DOMAIN st.file_hashes
                    THEN ScanLoop_keep_last(
                           [st EXCEPT !.duplicates = Append(@, st.file_hashes[hash_val]),
                                      !.file_hashes = [@ EXCEPT ![hash_val] = path]],
                           walk, unreadable, i + 1)
                    ELSE ScanLoop_keep_last(
                           [st EXCEPT !.file_hashes =
                              [h \in DOMAIN @ \cup {hash_val} |-> IF h = hash_val THEN path ELSE @[h]]],
                           walk, unreadable, i + 1)

RECURSIVE ScanLoop(_, _, _, _)
\* the scan of delete_duplicates over the walk, from its i-th file on; a
\* file that cannot be opened raises, which ends the handler
ScanLoop(st, walk, unreadable, i) ==
  IF i > Len(walk) THEN st
  ELSE LET path == walk[i]
       IN IF path \in unreadable THEN [st EXCEPT !.ok = FALSE]
          ELSE LET hash_val == hexdigest(st.fs[path].content)
               IN IF hash_val \in DOMAIN st.file_hashes
                    THEN ScanLoop([st EXCEPT !.duplicates = Append(@, path)],
                                  walk, unreadable, i + 1)
                    ELSE ScanLoop(
                           [st EXCEPT !.file_hashes =
                              [h \in DOMAIN @ \cup {hash_val} |-> IF h = hash_val THEN path ELSE @[h]]],
                           walk, unreadable, i + 1)

\* os_remove that reports success and leaves the file
os_remove_keep(f, path, undeletable) ==
  IF isfile(f, path) /\ path \notin undeletable
    THEN [ok |-> TRUE, fs |-> f]
    ELSE [ok |-> FALSE, fs |-> f]

\* os.remove(path)
os_remove(f, path, undeletable) ==
  IF isfile(f, path) /\ path \notin undeletable
    THEN [ok |-> TRUE, fs |-> [q \in DOMAIN f \ {path} |-> f[q]]]
    ELSE [ok |-> FALSE, fs |-> f]

RECURSIVE DeleteLoop(_, _, _, _)
\* the loop of os.remove over the duplicates, from the i-th on; a removal
\* that raises ends the handler
DeleteLoop(st, duplicates, undeletable, i) ==
  IF i > Len(duplicates) THEN st
  ELSE LET r == os_remove(st.fs, duplicates[i], undeletable)
       IN IF r.ok
            THEN DeleteLoop([st EXCEPT !.fs = r.fs], duplicates, undeletable, i + 1)
            ELSE [st EXCEPT !.ok = FALSE]

\* at most one path of S
AtMostOne(S) == {{}} \cup {{x} : x \in S}

\* the plain files of a tree
FilesOf(f) == {q \in DOMAIN f : f[q].kind = "file"}

\* the Delete Duplicates button; the operating system may refuse to open one
\* file and to remove one file, and the user answers the confirmation
delete_duplicates ==
  /\ target_path # NoPath
  /\ \E walk \in Walks(fs, <<target_path>>) :
      \E unreadable \in AtMostOne(FilesOf(fs)) :
       \E scan \in {ScanLoop([ok |-> TRUE, fs |-> fs, file_hashes |-> <<>>, duplicates |-> <<>>],
                             walk, unreadable, 1)} :
        LET report(confirm, undeletable, deleted, dialogs) ==
              ToolOut("delete_duplicates", fs, dialogs,
                      [walk |-> walk, unreadable |-> unreadable, scanned |-> scan.ok,
                       duplicates |-> scan.duplicates, confirm |-> confirm,
                       undeletable |-> undeletable, deleted |-> deleted])
            failed == Dialog("showerror", "Error", "Failed to delete duplicates", "", 0)
        IN IF ~scan.ok
             THEN /\ fs' = fs
                  /\ out' = report(FALSE, {}, FALSE, <<failed>>)
           ELSE IF scan.duplicates = <<>>
             THEN /\ fs' = fs
                  /\ out' = report(FALSE, {}, FALSE,
                                   <<Dialog("showinfo", "No Duplicates", "No duplicate files found.", "", 0)>>)
           ELSE \E confirm \in BOOLEAN :
                  IF ~confirm
                    THEN /\ fs' = fs
                         /\ out' = report(FALSE, {}, FALSE, <<>>)
                    ELSE \E undeletable \in AtMostOne({scan.duplicates[i] : i \in 1..Len(scan.duplicates)}) :
                          \E del \in {DeleteLoop([ok |-> TRUE, fs |-> fs], scan.duplicates, undeletable, 1)} :
                            /\ fs' = del.fs
                            /\ out' = report(TRUE, undeletable, del.ok,
                                             IF del.ok
                                               THEN <<Dialog("showinfo", "Success", "Deleted", "",
                                                             Len(scan.duplicates))>>
                                               ELSE <<failed>>)
  /\ UNCHANGED <<target_path, recent_folders, undo_stack, renames, extensions_map>>

RECURSIVE EmptyWalks(_, _)
RECURSIVE EmptySubWalks(_, _, _)
\* EmptyWalks that takes a folder without plain files for empty
EmptyWalks_no_files(f, d) ==
  {below \o SelectSeq(pd, LAMBDA n : PlainFiles(f, n) = {}) :
     pd \in {[i \in 1..Len(q) |-> Append(d, q[i])] : q \in Orders(SubDirs(f, d))},
     below \in EmptySubWalks(f, d, SubDirs(f, d))}

\* the lists of empty folders the bottom-up walk of d may build: the lists
\* of the subdirectories first, then the subdirectories of d that are empty
EmptyWalks(f, d) ==
  {below \o SelectSeq(pd, LAMBDA n : listdir(f, n) = {}) :
     pd \in {[i \in 1..Len(q) |-> Append(d, q[i])] : q \in Orders(SubDirs(f, d))},
     below \in EmptySubWalks(f, d, SubDirs(f, d))}

EmptySubWalks(f, d, dirs) ==
  IF dirs = {} THEN {<<>>}
  ELSE UNION {{w \o r : w \in EmptyWalks(f, Append(d, n)), r \in EmptySubWalks(f, d, dirs \ {n})} : n \in dirs}

\* os.rmdir(path)
os_rmdir(f, path) ==
  IF isdir(f, path) /\ listdir(f, path) = {}
    THEN [ok |-> TRUE, fs |-> [q \in DOMAIN f \ {path} |-> f[q]]]
    ELSE [ok |-> FALSE, fs |-> f]

RECURSIVE RmdirLoop(_, _, _)
\* the loop of os.rmdir over the empty folders, from the i-th on; a removal
\* that raises is logged and the loop goes on
RmdirLoop(st, empty_folders, i) ==
  IF i > Len(empty_folders) THEN st
  ELSE LET r == os_rmdir(st.fs, empty_folders[i])
       IN IF r.ok
            THEN RmdirLoop([st EXCEPT !.fs = r.fs, !.deleted = @ + 1], empty_folders, i + 1)
            ELSE RmdirLoop(st, empty_folders, i + 1)

\* clean_empty_folders that removes the folders whatever the user answers
clean_empty_folders_unasked ==
  /\ target_path # NoPath
  /\ \E empty_folders \in EmptyWalks(fs, <<target_path>>) :
       LET report(confirm, deleted, dialogs) ==
             ToolOut("clean_empty_folders", fs, dialogs,
                     [empty_folders |-> empty_folders, confirm |-> confirm, deleted |-> deleted])
       IN IF empty_folders = <<>>
            THEN /\ fs' = fs
                 /\ out' = report(FALSE, 0,
                                  <<Dialog("showinfo", "No Empty Folders", "No empty folders found.", "", 0)>>)
          ELSE \E confirm \in BOOLEAN :
                 \E st \in {RmdirLoop([fs |-> fs, deleted |-> 0], empty_folders, 1)} :
                    /\ fs' = st.fs
                    /\ out' = report(confirm, st.deleted,
                                     <<Dialog("showinfo", "Success", "Deleted", "", st.deleted)>>)
  /\ UNCHANGED <<target_path, recent_folders, undo_stack, renames, extensions_map>>

\* the Clean Empty Folders button; the user answers the confirmation
clean_empty_folders ==
  /\ target_path # NoPath
  /\ \E empty_folders \in EmptyWalks(fs, <<target_path>>) :
       LET report(confirm, deleted, dialogs) ==
             ToolOut("clean_empty_folders", fs, dialogs,
                     [empty_folders |-> empty_folders, confirm |-> confirm, deleted |-> deleted])
       IN IF empty_folders = <<>>
            THEN /\ fs' = fs
                 /\ out' = report(FALSE, 0,
                                  <<Dialog("showinfo", "No Empty Folders", "No empty folders found.", "", 0)>>)
          ELSE \E confirm \in BOOLEAN :
                 IF ~confirm
                   THEN /\ fs' = fs
                        /\ out' = report(FALSE, 0, <<>>)
                   ELSE \E st \in {RmdirLoop([fs |-> fs, deleted |-> 0], empty_folders, 1)} :
                          /\ fs' = st.fs
                          /\ out' = report(TRUE, st.deleted,
                                           <<Dialog("showinfo", "Success", "Deleted", "", st.deleted)>>)
  /\ UNCHANGED <<target_path, recent_folders, undo_stack, renames, extensions_map>>

RECURSIVE ToolTreesFrom(_, _)
ToolTreesFrom(trees, k) ==
  IF k > Len(ToolPaths) THEN trees
  ELSE LET p == ToolPaths[k]
       IN ToolTreesFrom(trees \cup {WithEntry(t[1], p, t[2]) :
                                      t \in {u \in trees \X ToolOptions(p) : isdir(u[1], dirname(p))}},
                        k + 1)

InitTools ==
  /\ fs \in ToolTreesFrom({[q \in {<<Root>>} |-> DirEntry]}, 1)
  /\ target_path = NoPath
  /\ recent_folders = <<>>
  /\ undo_stack = <<>>
  /\ out = NoOut("init")
  /\ renames = 0
  /\ extensions_map = initial_extensions_map

\* a session with the Rename tool
NextRename ==
  \/ select_folder
  \/ tool_no_folder
  \/ batch_rename
  \/ undo_nothing

SpecRename == InitTools /\ [][NextRename]_vars

\* a session with the tools that scan the folder
NextScan ==
  \/ select_folder
  \/ tool_no_folder
  \/ delete_duplicates
  \/ clean_empty_folders
  \/ undo_nothing
  \/ UserDeletesFolder

SpecScan == InitTools /\ [][NextScan]_vars

\* ------------------------------------------------------------------------
\* Properties of the tools
\* ------------------------------------------------------------------------

\* the handler op ran past its warnings
ToolRan(o, op) ==
  /\ o.op = op
  /\ \A i \in 1..Len(o.dialogs) : o.dialogs[i].kind # "showwarning"

\* the members of a sequence
Range(q) == {q[i] : i \in 1..Len(q)}

\* the plain files of tree f that hold content c
FilesWith(f, c) == {p \in FilesOf(f) : f[p].content = c}

\* the contents the plain files of tree f hold
ContentsIn(f) == {f[p].content : p \in FilesOf(f)}

\* the file of the walk that was discovered first with content c
FirstSeen(f, walk, c) ==
  walk[CHOOSE i \in 1..Len(walk) :
         /\ f[walk[i]].content = c
         /\ \A j \in 1..(i - 1) : f[walk[j]].content # c]

\* C15: a scan that read every file reports, for every content that k files
\* hold, k - 1 of them, and never the one it discovered first.
C15_DuplicateScan ==
  (ToolRan(out, "delete_duplicates") /\ out.tool.scanned) =>
    LET t == out.tool
        dups == Range(t.duplicates)
    IN /\ Cardinality(dups) = Len(t.duplicates)
       /\ dups \subseteq FilesOf(out.before)
       /\ Range(t.walk) = FilesOf(out.before)
       /\ \A c \in ContentsIn(out.before) :
            /\ Cardinality(dups \cap FilesWith(out.before, c))
                 = Cardinality(FilesWith(out.before, c)) - 1
            /\ FirstSeen(out.before, t.walk, c) \notin dups

\* three files with one content and a file with another were scanned, one
\* of the three found below the top level, and two paths were reported
C15_Witness ==
  /\ ToolRan(out, "delete_duplicates")
  /\ out.tool.scanned
  /\ Len(out.tool.duplicates) = 2
  /\ \E c, d \in ContentsIn(out.before) :
       /\ c # d
       /\ Cardinality(FilesWith(out.before, c)) = 3
       /\ Cardinality(FilesWith(out.before, d)) = 1
       /\ \E p \in FilesWith(out.before, c) : Len(p) = 3

\* C16: a confirmed deletion in which no removal failed removes the
\* reported files and nothing else; every content the tree held is then
\* held by one file, the one discovered first.
C16_DeletionKeepsFirst ==
  (ToolRan(out, "delete_duplicates") /\ out.tool.scanned /\ out.tool.confirm /\ out.tool.deleted) =>
    /\ DOMAIN fs = DOMAIN out.before \ Range(out.tool.duplicates)
    /\ \A q \in DOMAIN fs : fs[q] = out.before[q]
    /\ \A c \in ContentsIn(out.before) :
         FilesWith(fs, c) = {FirstSeen(out.before, out.tool.walk, c)}

\* a confirmed deletion removed two files
C16_Witness ==
  /\ ToolRan(out, "delete_duplicates")
  /\ out.tool.scanned
  /\ out.tool.confirm
  /\ out.tool.deleted
  /\ Len(out.tool.duplicates) = 2
  /\ Cardinality(DOMAIN fs) = Cardinality(DOMAIN out.before) - 2

\* C17: a file that cannot be read is skipped and the other files are still
\* scanned and classified; a file that cannot be removed is reported and the
\* other reported files are still removed.
C17_FailureTolerance ==
  ToolRan(out, "delete_duplicates") =>
    LET t == out.tool
        readable == FilesOf(out.before) \ t.unreadable
    IN /\ t.unreadable # {} =>
            /\ t.scanned
            /\ \A c \in {out.before[p].content : p \in readable} :
                 Cardinality({p \in Range(t.duplicates) : out.before[p].content = c})
                   = Cardinality({p \in readable : out.before[p].content = c}) - 1
       /\ t.undeletable # {} =>
            \A p \in Range(t.duplicates) \ t.undeletable : ~exists(fs, p)

\* the batch rename ran its loop to the end
Renamed(o) ==
  /\ o.op = "batch_rename"
  /\ \E i \in 1..Len(o.dialogs) : o.dialogs[i].msg = "Renamed"

\* the top-level plain files of tree f that hold content c
TopWith(f, c) == {n \in PlainFiles(f, <<Root>>) : f[<<Root, n>>].content = c}

\* C18: a batch rename overwrites nothing: the folder holds as many plain
\* files with the same contents as before, every renamed file holds under
\* its new name what it held under the old one, every other entry is as it
\* was, and the count shown is the number of files renamed.
C18_RenameNeverOverwrites ==
  Renamed(out) =>
    LET t == out.tool
        olds == {t.pairs[i][1] : i \in 1..Len(t.pairs)}
        news == {t.pairs[i][2] : i \in 1..Len(t.pairs)}
    IN /\ Cardinality(PlainFiles(fs, <<Root>>)) = Cardinality(PlainFiles(out.before, <<Root>>))
       /\ \A c \in Contents :
            Cardinality(TopWith(fs, c)) = Cardinality(TopWith(out.before, c))
       /\ \A i \in 1..Len(t.pairs) :
            /\ t.pairs[i][1] # t.pairs[i][2]
            /\ isfile(out.before, <<Root, t.pairs[i][1]>>)
            /\ isfile(fs, <<Root, t.pairs[i][2]>>)
            /\ fs[<<Root, t.pairs[i][2]>>] = out.before[<<Root, t.pairs[i][1]>>]
       /\ Cardinality(olds) = Len(t.pairs)
       /\ Cardinality(news) = Len(t.pairs)
       /\ \A p \in DOMAIN out.before \cup DOMAIN fs :
            (Len(p) # 2 \/ p[2] \notin olds \cup news) => SameAt(fs, out.before, p)
       /\ \A n \in olds \ news : ~exists(fs, <<Root, n>>)
       /\ t.renamed = Len(t.pairs)
       /\ out.dialogs = <<Dialog("showinfo", "Success", "Renamed", "", Len(t.pairs))>>

\* a pass renamed a file and skipped another whose new name was taken
C18_Witness ==
  /\ Renamed(out)
  /\ out.tool.renamed >= 1
  /\ out.tool.renamed < Len(out.tool.files)
  /\ \E n \in PlainFiles(out.before, <<Root>>) : isfile(fs, <<Root, n>>) /\ n # "Images"

\* the number of "#" at the end of a pattern that is "f" followed by "#"s
HashRun(pattern) == Len(pattern) - 1

\* i in k decimal digits, zeros in front, for i below 10
Padded(i, k) == [j \in 1..k |-> IF j < k THEN "0" ELSE Digits[i + 1]]

\* the name the numbering gives the file at index i of the listing
Numbered(pattern, files, i) ==
  LET ch == Chars(files[i])
      ext == IF HasExtension(ch) THEN SubSeq(ch, LastDot(ch), Len(ch)) ELSE <<>>
  IN Join(<<"f">> \o Padded(i, HashRun(pattern)) \o ext)

\* C19: with a pattern that has one run of one, two or three "#", the file
\* at index i of the listing is renamed to the pattern with the run replaced
\* by i in that many digits, followed by its extension, unless that name is
\* taken; a skipped file does not shift the numbers of the files after it.
C19_RenameNumbering ==
  (Renamed(out) /\ HashRun(out.tool.pattern) \in {1, 2, 3}) =>
    LET t == out.tool
        Pair(i) == <<t.files[i], Numbered(t.pattern, t.files, i)>>
    IN /\ Range(t.files) = PlainFiles(out.before, <<Root>>)
       /\ \A k \in 1..Len(t.pairs) : \E i \in 1..Len(t.files) : t.pairs[k] = Pair(i)
       /\ \A i \in 1..Len(t.files) :
            \/ /\ Pair(i) \in Range(t.pairs)
               /\ isfile(fs, <<Root, Pair(i)[2]>>)
               /\ fs[<<Root, Pair(i)[2]>>] = out.before[<<Root, t.files[i]>>]
            \/ /\ t.files[i] \notin {t.pairs[k][1] : k \in 1..Len(t.pairs)}
               /\ exists(out.before, <<Root, Pair(i)[2]>>)

\* three files were renamed with a run of three "#"
C19_Witness ==
  /\ Renamed(out)
  /\ HashRun(out.tool.pattern) = 3
  /\ Len(out.tool.files) = 3
  /\ out.tool.renamed = 3
  /\ \A e \in {".jpg", ".PDF"} : \E i \in 1..3 :
       isfile(fs, <<Root, "f00" \o Digits[i + 1] \o e>>)

\* a tool changed the tree
ToolChanged(o) ==
  /\ o.op \in {"batch_rename", "delete_duplicates", "clean_empty_folders"}
  /\ fs # o.before

\* C20: Undo Last pressed right after a tool changed files restores them.
C20_ToolsUndoable ==
  [][(ToolChanged(out) /\ UndoStep) => fs' = out.before]_vars

\* the folders below the selected folder that hold nothing
EmptyDirs(f) == {p \in DOMAIN f : Len(p) >= 2 /\ isdir(f, p) /\ listdir(f, p) = {}}

\* C22: a pass of the cleanup reports the folders below the selected folder
\* whose listing is empty when it scans, and on confirmation removes them
\* and nothing else; a folder that holds only empty folders is not reported
\* and is still there after the pass, empty, for a later pass to report.
C22_OneLevelPerPass ==
  ToolRan(out, "clean_empty_folders") =>
    LET t == out.tool
        reported == Range(t.empty_folders)
    IN /\ Cardinality(reported) = Len(t.empty_folders)
       /\ reported = EmptyDirs(out.before)
       /\ t.confirm =>
            /\ DOMAIN fs = DOMAIN out.before \ reported
            /\ \A q \in DOMAIN fs : fs[q] = out.before[q]
            /\ t.deleted = Len(t.empty_folders)
       /\ \A p \in DOMAIN out.before :
            (/\ Len(p) >= 2
             /\ isdir(out.before, p)
             /\ listdir(out.before, p) # {}
             /\ \A n \in listdir(out.before, p) : Append(p, n) \in EmptyDirs(out.before))
            => /\ p \notin reported
               /\ isdir(fs, p)
               /\ t.confirm => p \in EmptyDirs(fs)

\* a confirmed pass removed an empty folder and the empty folder inside
\* another folder, and left that other folder
C22_Witness ==
  /\ ToolRan(out, "clean_empty_folders")
  /\ out.tool.confirm
  /\ Range(out.tool.empty_folders) = {<<Root, "Music">>, <<Root, "Images", "a.jpg">>}
  /\ <<Root, "Images">> \in EmptyDirs(fs)
  /\ ~exists(fs, <<Root, "Music">>)

\* C30: when the user declines the confirmation of delete_duplicates or of
\* clean_empty_folders, or the tool stops before it asks, the tree is as it
\* was before the call.
C30_DeclineChangesNothing ==
  \A op \in {"delete_duplicates", "clean_empty_folders"} :
    (ToolRan(out, op) /\ ~out.tool.confirm) => fs = out.before

\* the user declined the removal of folders that were found empty
C30_Witness ==
  /\ ToolRan(out, "clean_empty_folders")
  /\ ~out.tool.confirm
  /\ out.tool.empty_folders # <<>>
  /\ out.dialogs = <<>>
  /\ EmptyDirs(fs) # {}

\* ------------------------------------------------------------------------
\* The preview, and what organize and undo leave alone
\* ------------------------------------------------------------------------

\* the keys of the breakdown: the categories of the rule table and "Others"
BreakdownKeys == Range(CategorySeq) \cup {"Others"}

\* get_file_breakdown: the number of top-level plain files per category; all
\* zero when there is no folder or it cannot be listed
get_file_breakdown(f, target) ==
  IF target = NoPath \/ ~isdir(f, <<target>>)
    THEN [c \in BreakdownKeys |-> 0]
    ELSE [c \in BreakdownKeys |->
            Cardinality({n \in PlainFiles(f, <<target>>) : category_of(Chars(n)) = c})]

RECURSIVE SumValues(_, _)
\* sum(breakdown.values()), over the keys in S
SumValues(b, S) ==
  IF S = {} THEN 0
  ELSE LET c == CHOOSE x \in S : TRUE IN b[c] + SumValues(b, S \ {c})

\* no move of the pass failed
NoMoveFailed(o) == \A i \in 1..Len(o.dialogs) : o.dialogs[i].kind # "showerror"

\* C21: the preview taken right before a pass counts, for every category,
\* the files the pass moves into that category's folder, and its total is
\* the count the pass returns, when no move fails.
C21_PreviewMatchesPass ==
  (Organized(out) /\ NoMoveFailed(out)) =>
    LET breakdown == get_file_breakdown(out.before, Root)
    IN /\ \A c \in BreakdownKeys :
            breakdown[c] = Cardinality({i \in 1..Len(out.moved_files) : out.moved_files[i][2][2] = c})
       /\ SumValues(breakdown, BreakdownKeys) = out.moved

\* C24: a pass leaves every entry inside a subfolder as it was, moves no
\* subfolder, and moves no plain file without extension.
C24_NonRecursive ==
  Organized(out) =>
    /\ \A p \in DOMAIN out.before \cup DOMAIN fs :
         (Len(p) >= 3 /\ exists(out.before, p)) => SameAt(fs, out.before, p)
    /\ \A p \in DOMAIN out.before :
         (Len(p) = 2 /\ isdir(out.before, p)) => isdir(fs, p)
    /\ \A p \in DOMAIN out.before :
         (Len(p) = 2 /\ isfile(out.before, p) /\ splitext_ext(Chars(p[2])) = <<>>)
           => SameAt(fs, out.before, p)

NumFolders == 6

\* the folders the dialog can return
Folders == {"D" \o ToString(i) : i \in 1..NumFolders}

InitFolders ==
  /\ fs = [q \in {<<d>> : d \in Folders} |-> DirEntry]
  /\ target_path = NoPath
  /\ recent_folders = <<>>
  /\ undo_stack = <<>>
  /\ out = NoOut("init")
  /\ renames = 0
  /\ extensions_map = initial_extensions_map

select_any_folder == select_folder_from(Folders \cup {NoPath})

NextFolders ==
  \/ select_any_folder
  \/ load_folder
  \/ clear_path

SpecFolders == InitFolders /\ [][NextFolders]_vars

\* the dialog returned a folder
Selected(o) == o.op = "other" /\ DOMAIN o.tool = {"folder", "recent_before"}
                 /\ o.tool.folder # NoPath

InList(l, x) == \E i \in 1..Len(l) : l[i] = x

\* C25: the recent-folders list never holds more than 5 entries nor the
\* same folder twice; selecting a folder not in the list appends it and,
\* if that makes 6, drops the oldest entry; selecting a folder already in
\* the list leaves the list as it was.
C25_RecentFolders ==
  /\ Len(recent_folders) <= 5
  /\ \A i, j \in 1..Len(recent_folders) :
       recent_folders[i] = recent_folders[j] => i = j
  /\ Selected(out) =>
       LET l == out.tool.recent_before
           x == out.tool.folder
       IN  IF InList(l, x)
             THEN recent_folders = l
             ELSE IF Len(l) = 5
                    THEN recent_folders = SubSeq(l, 2, 5) \o <<x>>
                    ELSE recent_folders = l \o <<x>>

\* a sixth folder was selected and the oldest entry dropped
C25_Witness ==
  /\ Selected(out)
  /\ Len(out.tool.recent_before) = 5
  /\ ~InList(out.tool.recent_before, out.tool.folder)
  /\ Len(recent_folders) = 5
  /\ recent_folders[5] = out.tool.folder
  /\ ~InList(recent_folders, out.tool.recent_before[1])

\* ------------------------------------------------------------------------
\* Search and the large-file finder
\* ------------------------------------------------------------------------

NumSizes == 3

\* os.path.getsize of a file, by its content: 10 MB, 50 MB, 200 MB, and one
\* byte more than 100 MB
file_size(content) ==
  CASE content = 1 -> 10 * 1024 * 1024
    [] content = 2 -> 50 * 1024 * 1024
    [] content = 3 -> 200 * 1024 * 1024
    [] OTHER -> 100 * 1024 * 1024 + 1

\* the folder a session that searches starts with, parents first: a file
\* named in upper case, a file and a folder whose name is a query, and a
\* file inside that folder
FindPaths ==
  << <<Root, "REPORT.pdf">>, <<Root, "a.jpg">>, <<Root, "report">>,
     <<Root, "report", "b.PDF">> >>

FindOptions(p) ==
  IF p = <<Root, "report">> THEN {DirEntry}
  ELSE IF p = <<Root, "a.jpg">> THEN {FileEntry(1)}
  ELSE {FileEntry(c) : c \in 1..NumSizes}

RECURSIVE FindTreesFrom(_, _)
FindTreesFrom(trees, k) ==
  IF k > Len(FindPaths) THEN trees
  ELSE LET p == FindPaths[k]
       IN FindTreesFrom(trees \cup {WithEntry(t[1], p, t[2]) :
                                      t \in {u \in trees \X FindOptions(p) : isdir(u[1], dirname(p))}},
                        k + 1)

InitFind ==
  /\ fs \in FindTreesFrom({[q \in {<<Root>>} |-> DirEntry]}, 1)
  /\ target_path = NoPath
  /\ recent_folders = <<>>
  /\ undo_stack = <<>>
  /\ out = NoOut("init")
  /\ renames = 0
  /\ extensions_map = initial_extensions_map

\* what the user may type into the search entry
Queries ==
  {<<>>, <<"r", "e", "p", "o", "r", "t">>, <<"R", "e", "P">>, <<".", "p", "d", "f">>,
   <<"a">>, <<"x">>}

\* values of the filter menu: no filter, and two of the six categories
FilterTypes == {"All Types", "Images", "Documents"}

\* sub in s, for strings
StrIn(sub, s) ==
  \E i \in 0..(Len(s) - Len(sub)) : SubSeq(s, i + 1, i + Len(sub)) = sub

\* search_files that compares the query with the whole path
search_files_full_path(walk, query) ==
  LET whole(path) == IF Len(path) = 2 THEN Chars(path[2])
                     ELSE Chars(path[2]) \o <<"/">> \o Chars(path[3])
      hit(path) == StrIn(lower(query), lower(whole(path)))
  IN SelectSeq(walk, hit)

\* search_files over the files os.walk yields, in its order
search_files(walk, query) ==
  LET hit(path) == StrIn(lower(query), lower(Chars(basename(path))))
  IN SelectSeq(walk, hit)

\* filter_type in extensions_map
IsRule(name) == \E k \in 1..Len(extensions_map) : extensions_map[k].name = name

\* extensions_map[name]
exts_of(name) ==
  extensions_map[CHOOSE k \in 1..Len(extensions_map) : extensions_map[k].name = name].exts

\* the Search button
perform_search ==
  /\ \E query \in Queries, filter_type \in FilterTypes :
       IF query = <<>> \/ target_path = NoPath
         THEN out' = ToolOut("perform_search", fs,
                             <<Dialog("showwarning", "Warning",
                                      "Enter a query and select a folder first!", "", 0)>>, <<>>)
         ELSE \E walk \in Walks(fs, <<target_path>>) :
                LET found == search_files(walk, query)
                    allowed(path) == ExtInList(splitext_ext(Chars(basename(path))), exts_of(filter_type))
                    results == IF filter_type # "All Types" /\ IsRule(filter_type)
                                 THEN SelectSeq(found, allowed)
                                 ELSE found
                IN out' = ToolOut("perform_search", fs, <<>>,
                                  [query |-> query, filter_type |-> filter_type, walk |-> walk,
                                   found |-> found, results |-> results])
  /\ UNCHANGED <<fs, target_path, recent_folders, undo_stack, renames, extensions_map>>

\* what the user may type into the threshold entry
Thresholds ==
  {<<"1", "0", "0">>, <<" ", "5", "0", " ">>, <<"1", "0">>, <<"0">>, <<"x">>, <<>>}

RECURSIVE str_strip(_)
\* str.strip for blanks
str_strip(s) ==
  IF s = <<>> THEN s
  ELSE IF Head(s) = " " THEN str_strip(Tail(s))
  ELSE IF s[Len(s)] = " " THEN str_strip(SubSeq(s, 1, Len(s) - 1))
  ELSE s

RECURSIVE digits_value(_)
digits_value(s) ==
  IF s = <<>> THEN 0
  ELSE digits_value(SubSeq(s, 1, Len(s) - 1)) * 10
         + ((CHOOSE d \in 1..10 : Digits[d] = s[Len(s)]) - 1)

\* float(text) for a text of decimal digits; -1 stands for ValueError
float_of(text) ==
  IF text # <<>> /\ \A i \in 1..Len(text) : \E d \in 1..10 : Digits[d] = text[i]
    THEN digits_value(text)
    ELSE -1

\* the loop of find_large_files that also takes a file of the threshold size
LargeLoop_at_least(f, walk, threshold_bytes) ==
  LET large(path) == file_size(f[path].content) >= threshold_bytes
      picked == SelectSeq(walk, large)
  IN [i \in 1..Len(picked) |-> <<picked[i], file_size(f[picked[i]].content)>>]

\* the loop of find_large_files over the files os.walk yields
LargeLoop(f, walk, threshold_bytes) ==
  LET large(path) == file_size(f[path].content) > threshold_bytes
      picked == SelectSeq(walk, large)
  IN [i \in 1..Len(picked) |-> <<picked[i], file_size(f[picked[i]].content)>>]

RECURSIVE sorted_by_size(_)
\* sorted(large_files, key=lambda x: x[1], reverse=True): a stable sort
sorted_by_size(l) ==
  IF l = <<>> THEN <<>>
  ELSE LET rest == sorted_by_size(Tail(l))
           k == Cardinality({i \in 1..Len(rest) : rest[i][2] > Head(l)[2]})
       IN SubSeq(rest, 1, k) \o <<Head(l)>> \o SubSeq(rest, k + 1, Len(rest))

\* the Find Large Files button
find_large_files ==
  /\ IF target_path = NoPath
       THEN out' = ToolOut("find_large_files", fs,
                           <<Dialog("showwarning", "Warning", "Select a folder first!", "", 0)>>, <<>>)
       ELSE \E text \in Thresholds :
              LET threshold_mb == float_of(str_strip(text))
                  threshold_bytes == threshold_mb * 1024 * 1024
              IN IF threshold_mb = -1
                   THEN out' = ToolOut("find_large_files", fs,
                                       <<Dialog("showwarning", "Warning",
                                                "Enter a valid number for size threshold!", "", 0)>>, <<>>)
                   ELSE \E walk \in Walks(fs, <<target_path>>) :
                          LET large_files == LargeLoop(fs, walk, threshold_bytes)
                              report(dialogs, shown) ==
                                ToolOut("find_large_files", fs, dialogs,
                                        [text |-> text, walk |-> walk, large_files |-> large_files,
                                         shown |-> shown])
                          IN IF large_files = <<>>
                               THEN out' = report(<<Dialog("showinfo", "No Large Files",
                                                           "No files larger than", "", threshold_mb)>>, <<>>)
                               ELSE out' = report(<<>>, sorted_by_size(large_files))
  /\ UNCHANGED <<fs, target_path, recent_folders, undo_stack, renames, extensions_map>>

\* a session that searches
NextFind ==
  \/ select_folder
  \/ perform_search
  \/ find_large_files

SpecFind == InitFind /\ [][NextFind]_vars

\* two characters that are the same letter
SameLetter(a, b) == a = b \/ \E i \in 1..26 : {a, b} = {UpperChars[i], LowerChars[i]}

\* the name holds the query somewhere, letter by letter, whatever the case
NameContains(name, query) ==
  \E i \in 0..(Len(name) - Len(query)) :
    \A k \in 1..Len(query) : SameLetter(name[i + k], query[k])

\* C26: search returns exactly the files anywhere under the folder whose
\* file name, the directory part left out, contains the query whatever the
\* case of the letters, each once: "report" finds REPORT.pdf, and finds no
\* file only because the folder it lies in is named report.
C26_Search ==
  ToolRan(out, "perform_search") =>
    LET t == out.tool
    IN /\ Range(t.found) =
            {p \in FilesOf(out.before) :
               IsPrefix(<<target_path>>, p) /\ NameContains(Chars(basename(p)), t.query)}
       /\ \A i, j \in 1..Len(t.found) : t.found[i] = t.found[j] => i = j
       /\ (t.query = Spell["report"]) =>
            /\ isfile(out.before, <<Root, "REPORT.pdf">>) =>
                 <<Root, "REPORT.pdf">> \in Range(t.found)
            /\ <<Root, "report", "b.PDF">> \notin Range(t.found)

\* "report" was searched in a folder that holds REPORT.pdf and report/b.PDF
C26_Witness ==
  /\ ToolRan(out, "perform_search")
  /\ out.tool.query = Spell["report"]
  /\ isfile(out.before, <<Root, "REPORT.pdf">>)
  /\ isfile(out.before, <<Root, "report", "b.PDF">>)
  /\ out.tool.found = << <<Root, "REPORT.pdf">> >>

MB == 1024 * 1024

\* C27: the large-file finder reports exactly the files under the folder
\* that are larger than the threshold, a file of the threshold size not
\* among them, the largest first; of files of 10 MB, 50 MB and 200 MB and a
\* threshold of 100 MB it reports the file of 200 MB alone.
C27_LargeFiles ==
  ToolRan(out, "find_large_files") =>
    LET t == out.tool
        mb == CHOOSE n \in {0, 10, 50, 100} :
                \E a, b \in {<<>>, <<" ">>} : t.text = a \o str_int(n) \o b
    IN /\ {t.shown[i][1] : i \in 1..Len(t.shown)} =
            {p \in FilesOf(out.before) :
               IsPrefix(<<target_path>>, p) /\ file_size(out.before[p].content) > mb * MB}
       /\ \A i \in 1..Len(t.shown) : t.shown[i][2] = file_size(out.before[t.shown[i][1]].content)
       /\ \A i, j \in 1..Len(t.shown) :
            /\ t.shown[i][1] = t.shown[j][1] => i = j
            /\ i < j => t.shown[i][2] >= t.shown[j][2]
       /\ (mb = 100 /\ {out.before[p].content : p \in FilesOf(out.before)} = {1, 2, 3}) =>
            /\ Len(t.shown) = 1
            /\ t.shown[1][2] = 200 * MB

\* files of 10 MB, 50 MB and 200 MB, threshold 100 MB: one file reported
C27_Witness ==
  /\ ToolRan(out, "find_large_files")
  /\ out.dialogs = <<>>
  /\ out.tool.text = <<"1", "0", "0">>
  /\ {file_size(out.before[p].content) : p \in FilesOf(out.before)} = {10 * MB, 50 * MB, 200 * MB}
  /\ Len(out.tool.shown) = 1
  /\ out.tool.shown[1][2] = 200 * MB

\* ------------------------------------------------------------------------
\* Import of the rule table
\* ------------------------------------------------------------------------

\* a table a rules file may hold: no Images, .jpg under Documents, and
\* .xyz under Others
other_extensions_map ==
  << [name |-> "Documents", exts |-> <<Ext("j","p","g")>>],
     [name |-> "Others", exts |-> <<Ext("x","y","z")>>] >>

\* what the file dialog and json.load may give: no file chosen, a file that
\* is not JSON, a JSON string, and JSON objects with and without the field
\* extensions_map
RuleDocuments ==
  {[kind |-> "none", fields |-> {}, extensions_map |-> <<>>],
   [kind |-> "invalid", fields |-> {}, extensions_map |-> <<>>],
   [kind |-> "string", fields |-> {}, extensions_map |-> <<>>],
   [kind |-> "object", fields |-> {"version"}, extensions_map |-> <<>>],
   [kind |-> "object", fields |-> {"extensions_map", "version"},
    extensions_map |-> other_extensions_map],
   [kind |-> "object", fields |-> {"extensions_map", "exported_at", "version"},
    extensions_map |-> initial_extensions_map]}

RECURSIVE dict_update(_, _, _)
\* d.update(e), from the k-th item of e on
dict_update(d, e, k) ==
  IF k > Len(e) THEN d
  ELSE IF \E i \in 1..Len(d) : d[i].name = e[k].name
    THEN dict_update([i \in 1..Len(d) |-> IF d[i].name = e[k].name THEN e[k] ELSE d[i]], e, k + 1)
    ELSE dict_update(Append(d, e[k]), e, k + 1)

\* what import_rules shows and records for a document
ImportOut(doc, dialogs, log) ==
  [ToolOut("import_rules", fs, dialogs, [document |-> doc, rules_before |-> extensions_map])
     EXCEPT !.log = log]

\* import_rules that adds the imported rules to the table it has
import_rules_merge ==
  /\ \E doc \in RuleDocuments :
       LET failed == Dialog("showerror", "Error", "Failed to import rules", "", 0)
       IN CASE doc.kind = "none" ->
                 /\ extensions_map' = extensions_map
                 /\ out' = ImportOut(doc, <<>>, <<>>)
            [] doc.kind \in {"invalid", "string"} ->
                 /\ extensions_map' = extensions_map
                 /\ out' = ImportOut(doc, <<failed>>, <<>>)
            [] OTHER ->
                 IF "extensions_map" \in doc.fields
                   THEN /\ extensions_map' = dict_update(extensions_map, doc.extensions_map, 1)
                        /\ out' = ImportOut(doc,
                                            <<Dialog("showinfo", "Success",
                                                     "Rules imported successfully. Restart the app to apply changes.",
                                                     "", 0)>>,
                                            <<LogLine("info", "Imported rules", <<>>, <<>>)>>)
                   ELSE /\ extensions_map' = extensions_map
                        /\ out' = ImportOut(doc,
                                            <<Dialog("showerror", "Error", "Invalid rules file format.", "", 0)>>,
                                            <<>>)
  /\ UNCHANGED <<fs, target_path, recent_folders, undo_stack, renames>>

\* the Import Rules button.  A file that is not JSON makes json.load raise;
\* a JSON string that holds the word makes the subscript raise; both end in
\* the handler's except
import_rules ==
  /\ \E doc \in RuleDocuments :
       LET failed == Dialog("showerror", "Error", "Failed to import rules", "", 0)
       IN CASE doc.kind = "none" ->
                 /\ extensions_map' = extensions_map
                 /\ out' = ImportOut(doc, <<>>, <<>>)
            [] doc.kind \in {"invalid", "string"} ->
                 /\ extensions_map' = extensions_map
                 /\ out' = ImportOut(doc, <<failed>>, <<>>)
            [] OTHER ->
                 IF "extensions_map" \in doc.fields
                   THEN /\ extensions_map' = doc.extensions_map
                        /\ out' = ImportOut(doc,
                                            <<Dialog("showinfo", "Success",
                                                     "Rules imported successfully. Restart the app to apply changes.",
                                                     "", 0)>>,
                                            <<LogLine("info", "Imported rules", <<>>, <<>>)>>)
                   ELSE /\ extensions_map' = extensions_map
                        /\ out' = ImportOut(doc,
                                            <<Dialog("showerror", "Error", "Invalid rules file format.", "", 0)>>,
                                            <<>>)
  /\ UNCHANGED <<fs, target_path, recent_folders, undo_stack, renames>>

\* the organize view, which shows the preview of the selected folder
show_organize_view ==
  /\ target_path # NoPath
  /\ \E breakdown \in {get_file_breakdown(fs, target_path)} :
       out' = ToolOut("show_organize_view", fs, <<>>,
                      [breakdown |-> breakdown,
                       total_preview |-> SumValues(breakdown, DOMAIN breakdown)])
  /\ UNCHANGED <<fs, target_path, recent_folders, undo_stack, renames, extensions_map>>

\* the folder a session that imports rules starts with
RulePaths == << <<Root, "a.jpg">>, <<Root, "c.xyz">> >>

InitRules ==
  /\ fs \in {[q \in {<<Root>>} \cup S |-> IF q = <<Root>> THEN DirEntry ELSE FileEntry(1)] :
               S \in SUBSET {RulePaths[i] : i \in 1..Len(RulePaths)}}
  /\ target_path = NoPath
  /\ recent_folders = <<>>
  /\ undo_stack = <<>>
  /\ out = NoOut("init")
  /\ renames = 0
  /\ extensions_map = initial_extensions_map

\* a session that imports rules
NextRules ==
  \/ select_folder
  \/ import_rules
  \/ run_organizer
  \/ show_organize_view
  \/ perform_search

SpecRules == InitRules /\ [][NextRules]_vars

\* the document holds a rule table under extensions_map
HasMapping(doc) == doc.kind = "object" /\ "extensions_map" \in doc.fields

\* the names of the rules of table t
RuleNames(t) == {t[k].name : k \in 1..Len(t)}

\* what organize, folder creation, the preview and the search filter did
\* agrees with table t and with no other
UsesTable(o, t) ==
  /\ Organized(o) =>
       /\ \A i \in 1..Len(o.moved_files) :
            LET src == o.moved_files[i][1]
                dst == o.moved_files[i][2]
            IN \E k \in 1..Len(t) :
                 /\ dst = <<Root, t[k].name, basename(src)>>
                 /\ \E x \in 1..Len(t[k].exts) : EndsWithExt(Chars(basename(src)), t[k].exts[x])
       /\ DOMAIN o.created \ DOMAIN o.before = {<<Root, n>> : n \in RuleNames(t)} \ DOMAIN o.before
  /\ o.op = "show_organize_view" =>
       /\ DOMAIN o.tool.breakdown = RuleNames(t) \cup {"Others"}
       /\ \A k \in 1..Len(t) :
            t[k].name # "Others" =>
              o.tool.breakdown[t[k].name] =
                Cardinality({n \in PlainFiles(o.before, <<Root>>) :
                               /\ HasExtension(Chars(n))
                               /\ \E x \in 1..Len(t[k].exts) : EndsWithExt(Chars(n), t[k].exts[x])
                               /\ \A j \in 1..(k - 1) :
                                    \A x \in 1..Len(t[j].exts) : ~EndsWithExt(Chars(n), t[j].exts[x])})
  /\ ToolRan(o, "perform_search") =>
       LET f == o.tool.filter_type
       IN IF f \in RuleNames(t)
            THEN \E k \in 1..Len(t) :
                   /\ t[k].name = f
                   /\ Range(o.tool.results) =
                        {p \in Range(o.tool.found) :
                           /\ HasExtension(Chars(basename(p)))
                           /\ \E x \in 1..Len(t[k].exts) : EndsWithExt(Chars(basename(p)), t[k].exts[x])}
            ELSE o.tool.results = o.tool.found

C28_StackedUndo ==
  out.trail.phase = 4 =>
    /\ \A m \in out.trail.moved :
         /\ isfile(fs, <<Root, m[1]>>)
         /\ fs[<<Root, m[1]>>].content = m[2]
    /\ \A c \in Contents : Cardinality(FilesWith(fs, c)) = out.trail.count[c]

====
